---- MODULE Spec2Model ----
(***************************************************************************)
(* Model of the key-based comparison engine of the Excel comparison tool   *)
(* (src/src/core/comparison_engine.py).  A table is a pandas DataFrame: an *)
(* ordered list of columns, an ordered list of rows and, per column, the   *)
(* dtype class (object or numeric).  compare() is modelled as a sequence   *)
(* of steps, one per statement block of ComparisonEngine.compare.          *)
(***************************************************************************)
EXTENDS Integers, Sequences, FiniteSets, TLC

(***************************************************************************)
(* Cell values.  A cell is null (NaN), a number or a text; a text is the   *)
(* sequence of its characters, so that strip() and lower() are computed.   *)
(***************************************************************************)
Null == [t |-> "null", n |-> 0, s |-> <<>>]
Num(i) == [t |-> "num", n |-> i, s |-> <<>>]
Str(cs) == [t |-> "str", n |-> 0, s |-> cs]

\* pd.isna(v)
IsNa(v) == v.t = "null"

\* Characters in ASCII order (the order Python compares str by).
Ascii == <<" ", "0", "1", "2", "3", "4", "5", "6", "7", "8", "9",
           "A", "B", "C", "D", "E", "F", "G", "H", "I", "J", "K", "L", "M",
           "N", "O", "P", "Q", "R", "S", "T", "U", "V", "W", "X", "Y", "Z",
           "a", "b", "c", "d", "e", "f", "g", "h", "i", "j", "k", "l", "m",
           "n", "o", "p", "q", "r", "s", "t", "u", "v", "w", "x", "y", "z">>

CharRank(c) == CHOOSE i \in 1..Len(Ascii) : Ascii[i] = c

IsUpper(c) == CharRank(c) \in CharRank("A")..CharRank("Z")

\* str.lower() on one character
LowerChar(c) == IF IsUpper(c) THEN Ascii[CharRank(c) + (CharRank("a") - CharRank("A"))] ELSE c

\* str.lower()
Lower(cs) == [i \in 1..Len(cs) |-> LowerChar(cs[i])]

IsSpace(c) == c = " "

RECURSIVE LStrip(_)
LStrip(cs) == IF cs # <<>> /\ IsSpace(Head(cs)) THEN LStrip(Tail(cs)) ELSE cs

RECURSIVE RStrip(_)
RStrip(cs) ==
    IF cs # <<>> /\ IsSpace(cs[Len(cs)]) THEN RStrip(SubSeq(cs, 1, Len(cs) - 1)) ELSE cs

\* str.strip()
Strip(cs) == RStrip(LStrip(cs))

\* str(n) for a non-negative integer
RECURSIVE Digits(_)
Digits(n) ==
    IF n < 10 THEN <<Ascii[n + 2]>> ELSE Digits(n \div 10) \o <<Ascii[(n % 10) + 2]>>

\* Series.astype(str) on one cell of an object column: NaN becomes the text
\* 'nan', a number its decimal representation, a text is unchanged.
AsTypeStr(v) ==
    CASE v.t = "str" -> v
      [] v.t = "null" -> Str(<<"n", "a", "n">>)
      [] OTHER -> Str(Digits(v.n))

(***************************************************************************)
(* Tables.  columns: the column names in order; rows: the rows in order,   *)
(* each a function from the column names to cells; objcols: the columns of *)
(* dtype object (every column holding a text is one of them).              *)
(***************************************************************************)
ColSet(df) == {df.columns[i] : i \in 1..Len(df.columns)}

\* the columns pandas infers as object: those holding at least one text
InferObjCols(columns, rows) ==
    {c \in {columns[i] : i \in 1..Len(columns)} :
        \E r \in 1..Len(rows) : rows[r][c].t = "str"}

MkTable(columns, rows) ==
    [columns |-> columns, rows |-> rows, objcols |-> InferObjCols(columns, rows)]

(***************************************************************************)
(* Configuration (ComparisonConfig).  NoColumn stands for None.            *)
(***************************************************************************)
NoColumn == "None"

MkConfig(keys, method, sortcol, cs, trim) ==
    [key_columns |-> keys, alignment_method |-> method,
     secondary_sort_column |-> sortcol, case_sensitive |-> cs,
     trim_whitespace |-> trim]

KeyColSet(cfg) == {cfg.key_columns[i] : i \in 1..Len(cfg.key_columns)}

(***************************************************************************)
(* Python comparison of two cells.  same_nan: whether two NaN cells are    *)
(* one and the same float object (containers compare elements by identity  *)
(* first and NaN == NaN is False otherwise).                               *)
(***************************************************************************)
\* x == y as a container (tuple, set) decides it
ElemEq(x, y, same_nan) == x = y /\ (IsNa(x) => same_nan)

RECURSIVE SeqLt(_, _)
SeqLt(xs, ys) ==
    IF ys = <<>> THEN FALSE
    ELSE IF xs = <<>> THEN TRUE
    ELSE IF Head(xs) = Head(ys) THEN SeqLt(Tail(xs), Tail(ys))
    ELSE CharRank(Head(xs)) < CharRank(Head(ys))

\* x < y on cells: "lt", "ge", or "err" (TypeError: str against a number)
CellLt(x, y) ==
    CASE x.t = "str" /\ y.t = "str" -> IF SeqLt(x.s, y.s) THEN "lt" ELSE "ge"
      [] x.t = "str" \/ y.t = "str" -> "err"
      [] x.t = "num" /\ y.t = "num" -> IF x.n < y.n THEN "lt" ELSE "ge"
      [] OTHER -> "ge"

\* tuple.__lt__: the first position where the elements are not equal decides
RECURSIVE TupleLt(_, _, _)
TupleLt(x, y, same_nan) ==
    IF x = <<>> \/ y = <<>> THEN (IF Len(x) < Len(y) THEN "lt" ELSE "ge")
    ELSE IF ElemEq(Head(x), Head(y), same_nan) THEN TupleLt(Tail(x), Tail(y), same_nan)
    ELSE CellLt(Head(x), Head(y))

(***************************************************************************)
(* sorted() of a list of key tuples, as CPython's list.sort does it for a  *)
(* list shorter than 64: count_run on the whole list, then binarysort.     *)
(* The result is [err, seq]; err is TRUE when a comparison raised.         *)
(***************************************************************************)
Reverse(xs) == [i \in 1..Len(xs) |-> xs[Len(xs) + 1 - i]]

InsertAt(xs, i, v) == SubSeq(xs, 1, i - 1) \o <<v>> \o SubSeq(xs, i, Len(xs))

\* length of the initial run; desc tells whether it descends strictly
RECURSIVE RunEnd(_, _, _, _)
RunEnd(xs, i, desc, same_nan) ==
    IF i > Len(xs) THEN [err |-> FALSE, n |-> Len(xs)]
    ELSE LET c == TupleLt(xs[i], xs[i - 1], same_nan) IN
         IF c = "err" THEN [err |-> TRUE, n |-> i]
         ELSE IF (c = "lt") = desc THEN RunEnd(xs, i + 1, desc, same_nan)
         ELSE [err |-> FALSE, n |-> i - 1]

CountRun(xs, same_nan) ==
    IF Len(xs) < 2 THEN [err |-> FALSE, n |-> Len(xs), desc |-> FALSE]
    ELSE LET c == TupleLt(xs[2], xs[1], same_nan) IN
         IF c = "err" THEN [err |-> TRUE, n |-> 2, desc |-> FALSE]
         ELSE LET r == RunEnd(xs, 3, c = "lt", same_nan) IN
              [err |-> r.err, n |-> r.n, desc |-> c = "lt"]

\* the insertion point of pivot in the sorted prefix xs[1..r-1] (l, r 1-based,
\* half-open as in binarysort); 0 when a comparison raised
RECURSIVE BinSearch(_, _, _, _, _)
BinSearch(xs, pivot, l, r, same_nan) ==
    IF l >= r THEN l
    ELSE LET p == l + ((r - l) \div 2)
             c == TupleLt(pivot, xs[p], same_nan) IN
         IF c = "err" THEN 0
         ELSE IF c = "lt" THEN BinSearch(xs, pivot, l, p, same_nan)
         ELSE BinSearch(xs, pivot, p + 1, r, same_nan)

RECURSIVE BinarySort(_, _, _)
BinarySort(xs, start, same_nan) ==
    IF start > Len(xs) THEN [err |-> FALSE, seq |-> xs]
    ELSE LET pos == BinSearch(xs, xs[start], 1, start, same_nan) IN
         IF pos = 0 THEN [err |-> TRUE, seq |-> xs]
         ELSE BinarySort(InsertAt(SubSeq(xs, 1, start - 1), pos, xs[start])
                            \o SubSeq(xs, start + 1, Len(xs)),
                         start + 1, same_nan)

ListSort(xs, same_nan) ==
    LET run == CountRun(xs, same_nan) IN
    IF run.err THEN [err |-> TRUE, seq |-> xs]
    ELSE LET ys == IF run.desc
                   THEN Reverse(SubSeq(xs, 1, run.n)) \o SubSeq(xs, run.n + 1, Len(xs))
                   ELSE xs
         IN BinarySort(ys, run.n + 1, same_nan)

\* the lists a set can be iterated as (the iteration order of a set of
\* tuples depends on their hashes, which for NaN and str vary between runs)
Orderings(S) ==
    {f \in [1..Cardinality(S) -> S] : \A i, j \in 1..Cardinality(S) : i # j => f[i] # f[j]}

\* every outcome of sorted(S)
Sorted(S, same_nan) == {ListSort(xs, same_nan) : xs \in Orderings(S)}

(***************************************************************************)
(* ComparisonEngine: the helper methods, as functions of their arguments.  *)
(***************************************************************************)
NoError == [kind |-> "none", column |-> "", table |-> ""]
KeyError(col, tbl) == [kind |-> "KeyError", column |-> col, table |-> tbl]
TypeError == [kind |-> "TypeError", column |-> "", table |-> ""]

\* _validate_dataframes with the message of the File A check pasted into the
\* File B check
RECURSIVE ValidateFromPasted(_, _, _, _)
ValidateFromPasted(cfg, a, b, i) ==
    IF i > Len(cfg.key_columns) THEN NoError
    ELSE IF cfg.key_columns[i] \notin ColSet(a) THEN KeyError(cfg.key_columns[i], "File A")
    ELSE IF cfg.key_columns[i] \notin ColSet(b) THEN KeyError(cfg.key_columns[i], "File A")
    ELSE ValidateFromPasted(cfg, a, b, i + 1)

\* _validate_dataframes: the first key column missing from A, else from B
RECURSIVE ValidateFrom(_, _, _, _)
ValidateFrom(cfg, a, b, i) ==
    IF i > Len(cfg.key_columns) THEN NoError
    ELSE IF cfg.key_columns[i] \notin ColSet(a) THEN KeyError(cfg.key_columns[i], "File A")
    ELSE IF cfg.key_columns[i] \notin ColSet(b) THEN KeyError(cfg.key_columns[i], "File B")
    ELSE ValidateFrom(cfg, a, b, i + 1)

\* _validate_dataframes checking the secondary sort column as well
ValidateWithSortColumn(cfg, a, b) ==
    LET e == ValidateFrom(cfg, a, b, 1)
        c == cfg.secondary_sort_column
    IN IF e # NoError \/ c = NoColumn THEN e
       ELSE IF c \notin ColSet(a) THEN KeyError(c, "File A")
       ELSE IF c \notin ColSet(b) THEN KeyError(c, "File B")
       ELSE NoError

ValidateDataframes(cfg, a, b) == ValidateFrom(cfg, a, b, 1)

\* df[col].astype(str).str.strip() on one cell
StripCell(v) == Str(Strip(AsTypeStr(v).s))

\* df[col].astype(str).str.lower() on one cell
LowerCell(v) == Str(Lower(AsTypeStr(v).s))

\* _normalize_dataframe stripping whatever trim_whitespace says
NormalizeCellStripsAlways(cfg, v) ==
    LET v1 == StripCell(v)
    IN IF ~cfg.case_sensitive THEN LowerCell(v1) ELSE v1

\* the cell of an object column after _normalize_dataframe
NormalizeCell(cfg, v) ==
    LET v1 == IF cfg.trim_whitespace THEN StripCell(v) ELSE v
    IN IF ~cfg.case_sensitive THEN LowerCell(v1) ELSE v1

\* _normalize_dataframe rewriting the object columns outside the key only
NormalizeDataframeOutsideKey(cfg, df) ==
    [df EXCEPT !.rows =
        [r \in 1..Len(df.rows) |->
            [c \in ColSet(df) |->
                IF c \in df.objcols \ KeyColSet(cfg) THEN NormalizeCell(cfg, df.rows[r][c])
                ELSE df.rows[r][c]]]]

\* _normalize_dataframe: the object columns are rewritten, the others kept
NormalizeDataframe(cfg, df) ==
    [df EXCEPT !.rows =
        [r \in 1..Len(df.rows) |->
            [c \in ColSet(df) |->
                IF c \in df.objcols THEN NormalizeCell(cfg, df.rows[r][c])
                ELSE df.rows[r][c]]]]

\* the key tuple of a row
KeyOf(cfg, row) == [i \in 1..Len(cfg.key_columns) |-> row[cfg.key_columns[i]]]

\* _get_unique_keys: unique() and drop_duplicates() keep one NaN
GetUniqueKeys(cfg, df) == {KeyOf(cfg, df.rows[r]) : r \in 1..Len(df.rows)}

\* df[col] == key[i], row by row: NaN equals nothing
RowHasKey(cfg, row, key) ==
    \A i \in 1..Len(cfg.key_columns) :
        /\ ~IsNa(row[cfg.key_columns[i]])
        /\ ~IsNa(key[i])
        /\ row[cfg.key_columns[i]] = key[i]

\* _get_rows_for_key: the rows under the mask, in table order
GetRowsForKey(cfg, df, key) == SelectSeq(df.rows, LAMBDA row : RowHasKey(cfg, row, key))

\* _values_equal
ValuesEqual(val_a, val_b) ==
    IF IsNa(val_a) /\ IsNa(val_b) THEN TRUE
    ELSE IF IsNa(val_a) \/ IsNa(val_b) THEN FALSE
    ELSE val_a = val_b

\* _compare_rows: the loop over the non-key columns of row_a, from column i
RECURSIVE CompareRowsFrom(_, _, _, _, _, _)
CompareRowsFrom(cfg, cols_a, row_a, cols_b, row_b, i) ==
    IF i > Len(cols_a) THEN "MATCH"
    ELSE LET col == cols_a[i] IN
         IF col \in KeyColSet(cfg) THEN CompareRowsFrom(cfg, cols_a, row_a, cols_b, row_b, i + 1)
         ELSE IF col \notin {cols_b[j] : j \in 1..Len(cols_b)}
              THEN CompareRowsFrom(cfg, cols_a, row_a, cols_b, row_b, i + 1)
         ELSE IF IsNa(row_a[col]) /\ IsNa(row_b[col])
              THEN CompareRowsFrom(cfg, cols_a, row_a, cols_b, row_b, i + 1)
         ELSE IF IsNa(row_a[col]) \/ IsNa(row_b[col]) THEN "MODIFIED"
         ELSE IF row_a[col] # row_b[col] THEN "MODIFIED"
         ELSE CompareRowsFrom(cfg, cols_a, row_a, cols_b, row_b, i + 1)

\* _compare_rows reporting a column of row_a that row_b lacks as a difference
RECURSIVE CompareRowsStrictFrom(_, _, _, _, _, _)
CompareRowsStrictFrom(cfg, cols_a, row_a, cols_b, row_b, i) ==
    IF i > Len(cols_a) THEN "MATCH"
    ELSE LET col == cols_a[i] IN
         IF col \in KeyColSet(cfg) THEN CompareRowsStrictFrom(cfg, cols_a, row_a, cols_b, row_b, i + 1)
         ELSE IF col \notin {cols_b[j] : j \in 1..Len(cols_b)} THEN "MODIFIED"
         ELSE IF IsNa(row_a[col]) /\ IsNa(row_b[col])
              THEN CompareRowsStrictFrom(cfg, cols_a, row_a, cols_b, row_b, i + 1)
         ELSE IF IsNa(row_a[col]) \/ IsNa(row_b[col]) THEN "MODIFIED"
         ELSE IF row_a[col] # row_b[col] THEN "MODIFIED"
         ELSE CompareRowsStrictFrom(cfg, cols_a, row_a, cols_b, row_b, i + 1)

CompareRowsStrict(cfg, cols_a, row_a, cols_b, row_b) ==
    CompareRowsStrictFrom(cfg, cols_a, row_a, cols_b, row_b, 1)

\* _compare_rows passing over a cell that is null in row_a alone
RECURSIVE CompareRowsLenientFrom(_, _, _, _, _, _)
CompareRowsLenientFrom(cfg, cols_a, row_a, cols_b, row_b, i) ==
    IF i > Len(cols_a) THEN "MATCH"
    ELSE LET col == cols_a[i] IN
         IF col \in KeyColSet(cfg) THEN CompareRowsLenientFrom(cfg, cols_a, row_a, cols_b, row_b, i + 1)
         ELSE IF col \notin {cols_b[j] : j \in 1..Len(cols_b)}
              THEN CompareRowsLenientFrom(cfg, cols_a, row_a, cols_b, row_b, i + 1)
         ELSE IF IsNa(row_a[col])
              THEN CompareRowsLenientFrom(cfg, cols_a, row_a, cols_b, row_b, i + 1)
         ELSE IF IsNa(row_b[col]) THEN "MODIFIED"
         ELSE IF row_a[col] # row_b[col] THEN "MODIFIED"
         ELSE CompareRowsLenientFrom(cfg, cols_a, row_a, cols_b, row_b, i + 1)

CompareRowsLenient(cfg, cols_a, row_a, cols_b, row_b) ==
    CompareRowsLenientFrom(cfg, cols_a, row_a, cols_b, row_b, 1)

CompareRows(cfg, cols_a, row_a, cols_b, row_b) ==
    CompareRowsFrom(cfg, cols_a, row_a, cols_b, row_b, 1)

\* A row handed to _create_aligned_row: a Series (index and values) or None
NoneRow == [present |-> FALSE, index |-> <<>>, vals |-> <<>>]
SomeRow(cols, row) == [present |-> TRUE, index |-> cols, vals |-> row]

NonKeyCols(cfg, index) == SelectSeq(index, LAMBDA c : c \notin KeyColSet(cfg))

\* the A_<col> (B_<col>) entries of the output dict
SideEntries(cfg, r) ==
    IF r.present
    THEN [c \in {r.index[i] : i \in 1..Len(r.index)} \ KeyColSet(cfg) |-> r.vals[c]]
    ELSE <<>>

\* the changed_cells list holding the first differing column only
ChangedCellsFirst(cfg, ra, rb) ==
    LET all == SelectSeq(NonKeyCols(cfg, ra.index),
                         LAMBDA c : /\ c \in {rb.index[j] : j \in 1..Len(rb.index)}
                                    /\ ~ValuesEqual(ra.vals[c], rb.vals[c]))
    IN IF all = <<>> THEN <<>> ELSE <<Head(all)>>

\* the changed_cells list of a MODIFIED row
ChangedCells(cfg, ra, rb) ==
    SelectSeq(NonKeyCols(cfg, ra.index),
              LAMBDA c : /\ c \in {rb.index[j] : j \in 1..Len(rb.index)}
                         /\ ~ValuesEqual(ra.vals[c], rb.vals[c]))

\* _create_aligned_row
CreateAlignedRow(cfg, key, ra, rb, status) ==
    LET changed == status = "MODIFIED" /\ ra.present /\ rb.present IN
    [key |-> key,
     A |-> SideEntries(cfg, ra),
     status |-> status,
     B |-> SideEntries(cfg, rb),
     has_changed_cells |-> changed,
     changed_cells |-> IF changed THEN ChangedCells(cfg, ra, rb) ELSE <<>>]

(***************************************************************************)
(* Alignment within one key group.                                         *)
(***************************************************************************)
\* the place of row in the rows already sorted by col: after every row that
\* is not greater (DataFrame.sort_values keeps ties in order on the short
\* groups handled here; NaN is put last)
RECURSIVE SortedInsert(_, _, _)
SortedInsert(sorted, row, col) ==
    IF sorted = <<>> THEN <<row>>
    ELSE IF ~IsNa(row[col]) /\ (IsNa(Head(sorted)[col]) \/ CellLt(row[col], Head(sorted)[col]) = "lt")
         THEN <<row>> \o sorted
    ELSE <<Head(sorted)>> \o SortedInsert(Tail(sorted), row, col)

RECURSIVE SortRowsBy(_, _)
SortRowsBy(rows, col) ==
    IF rows = <<>> THEN <<>>
    ELSE SortedInsert(SortRowsBy(SubSeq(rows, 1, Len(rows) - 1), col), rows[Len(rows)], col)

\* sort_values raises TypeError when the non-null cells to order hold both
\* texts and numbers
SortRaises(rows, col) ==
    /\ \E i \in 1..Len(rows) : rows[i][col].t = "str"
    /\ \E i \in 1..Len(rows) : rows[i][col].t = "num"

\* _sort_by_secondary on the rows of one key group of df: [err, rows]
SortBySecondary(cfg, df, rows) ==
    IF cfg.secondary_sort_column # NoColumn /\ cfg.secondary_sort_column \in ColSet(df)
    THEN IF SortRaises(rows, cfg.secondary_sort_column)
         THEN [err |-> TRUE, rows |-> rows]
         ELSE [err |-> FALSE, rows |-> SortRowsBy(rows, cfg.secondary_sort_column)]
    ELSE [err |-> FALSE, rows |-> rows]

Max(m, n) == IF m >= n THEN m ELSE n

\* _compare_key_group reporting the unpaired rows of a common key with the
\* statuses of the one-sided keys
AlignAtAsOneSidedKey(cfg, key, a, rows_a, b, rows_b, i) ==
    IF i <= Len(rows_a) /\ i <= Len(rows_b)
    THEN CreateAlignedRow(cfg, key, SomeRow(a.columns, rows_a[i]), SomeRow(b.columns, rows_b[i]),
                          CompareRows(cfg, a.columns, rows_a[i], b.columns, rows_b[i]))
    ELSE IF i <= Len(rows_a)
    THEN CreateAlignedRow(cfg, key, SomeRow(a.columns, rows_a[i]), NoneRow, "REMOVED_KEY")
    ELSE CreateAlignedRow(cfg, key, NoneRow, SomeRow(b.columns, rows_b[i]), "NEW_KEY")

\* _compare_key_group handing the last row of A to the record of an added row
AlignAtKeepsRowA(cfg, key, a, rows_a, b, rows_b, i) ==
    IF i <= Len(rows_a) /\ i <= Len(rows_b)
    THEN CreateAlignedRow(cfg, key, SomeRow(a.columns, rows_a[i]), SomeRow(b.columns, rows_b[i]),
                          CompareRows(cfg, a.columns, rows_a[i], b.columns, rows_b[i]))
    ELSE IF i <= Len(rows_a)
    THEN CreateAlignedRow(cfg, key, SomeRow(a.columns, rows_a[i]), NoneRow, "REMOVED_ROW")
    ELSE CreateAlignedRow(cfg, key, SomeRow(a.columns, rows_a[Len(rows_a)]),
                          SomeRow(b.columns, rows_b[i]), "ADDED_ROW")

\* the aligned row at position i of the group (the body of the for loop)
AlignAt(cfg, key, a, rows_a, b, rows_b, i) ==
    IF i <= Len(rows_a) /\ i <= Len(rows_b)
    THEN CreateAlignedRow(cfg, key, SomeRow(a.columns, rows_a[i]), SomeRow(b.columns, rows_b[i]),
                          CompareRows(cfg, a.columns, rows_a[i], b.columns, rows_b[i]))
    ELSE IF i <= Len(rows_a)
    THEN CreateAlignedRow(cfg, key, SomeRow(a.columns, rows_a[i]), NoneRow, "REMOVED_ROW")
    ELSE CreateAlignedRow(cfg, key, NoneRow, SomeRow(b.columns, rows_b[i]), "ADDED_ROW")

\* _compare_key_group with the rows of B left unsorted
CompareKeyGroupSortsA(cfg, key, a, b) ==
    LET rows_a == GetRowsForKey(cfg, a, key)
        rows_b == GetRowsForKey(cfg, b, key)
        bysort == cfg.alignment_method = "secondary_sort"
        sa == IF bysort THEN SortBySecondary(cfg, a, rows_a) ELSE [err |-> FALSE, rows |-> rows_a]
    IN IF sa.err THEN [err |-> TRUE, rows |-> <<>>]
       ELSE [err |-> FALSE,
             rows |-> [i \in 1..Max(Len(sa.rows), Len(rows_b)) |->
                          AlignAt(cfg, key, a, sa.rows, b, rows_b, i)]]

\* _compare_key_group: [err, rows]
CompareKeyGroup(cfg, key, a, b) ==
    LET rows_a == GetRowsForKey(cfg, a, key)
        rows_b == GetRowsForKey(cfg, b, key)
        bysort == cfg.alignment_method = "secondary_sort"
        sa == IF bysort THEN SortBySecondary(cfg, a, rows_a) ELSE [err |-> FALSE, rows |-> rows_a]
        sb == IF bysort THEN SortBySecondary(cfg, b, rows_b) ELSE [err |-> FALSE, rows |-> rows_b]
    IN IF sa.err \/ sb.err THEN [err |-> TRUE, rows |-> <<>>]
       ELSE [err |-> FALSE,
             rows |-> [i \in 1..Max(Len(sa.rows), Len(sb.rows)) |->
                          AlignAt(cfg, key, a, sa.rows, b, sb.rows, i)]]

\* the loop over the common keys, in the order given: [err, rows]
RECURSIVE CompareCommonKeys(_, _, _, _)
CompareCommonKeys(cfg, keys, a, b) ==
    IF keys = <<>> THEN [err |-> FALSE, rows |-> <<>>]
    ELSE LET g == CompareKeyGroup(cfg, Head(keys), a, b)
             rest == CompareCommonKeys(cfg, Tail(keys), a, b)
         IN [err |-> g.err \/ rest.err, rows |-> g.rows \o rest.rows]

\* the rows emitted for the keys of one table only, in the order given
RECURSIVE EmitOneSided(_, _, _, _)
EmitOneSided(cfg, keys, df, status) ==
    IF keys = <<>> THEN <<>>
    ELSE LET rows == GetRowsForKey(cfg, df, Head(keys)) IN
         [i \in 1..Len(rows) |->
            IF status = "REMOVED_KEY"
            THEN CreateAlignedRow(cfg, Head(keys), SomeRow(df.columns, rows[i]), NoneRow, status)
            ELSE CreateAlignedRow(cfg, Head(keys), NoneRow, SomeRow(df.columns, rows[i]), status)]
         \o EmitOneSided(cfg, Tail(keys), df, status)

\* status_counts.get(status, 0)
StatusCount(rows, status) == Cardinality({i \in 1..Len(rows) : rows[i].status = status})

\* _generate_summary with removed_row_count reading the REMOVED_KEY tally
GenerateSummaryPasted(rows, total_keys_a, total_keys_b, common) ==
    [total_unique_keys_a |-> total_keys_a,
     total_unique_keys_b |-> total_keys_b,
     keys_in_common |-> common,
     keys_only_in_a |-> total_keys_a - common,
     keys_only_in_b |-> total_keys_b - common,
     total_rows_compared |-> Len(rows),
     match_count |-> StatusCount(rows, "MATCH"),
     modified_count |-> StatusCount(rows, "MODIFIED"),
     added_row_count |-> StatusCount(rows, "ADDED_ROW"),
     removed_row_count |-> StatusCount(rows, "REMOVED_KEY"),
     new_key_count |-> StatusCount(rows, "NEW_KEY"),
     removed_key_count |-> StatusCount(rows, "REMOVED_KEY")]

\* _generate_summary (aligned_df['status'] exists only when a row was emitted)
GenerateSummary(rows, total_keys_a, total_keys_b, common) ==
    [total_unique_keys_a |-> total_keys_a,
     total_unique_keys_b |-> total_keys_b,
     keys_in_common |-> common,
     keys_only_in_a |-> total_keys_a - common,
     keys_only_in_b |-> total_keys_b - common,
     total_rows_compared |-> Len(rows),
     match_count |-> StatusCount(rows, "MATCH"),
     modified_count |-> StatusCount(rows, "MODIFIED"),
     added_row_count |-> StatusCount(rows, "ADDED_ROW"),
     removed_row_count |-> StatusCount(rows, "REMOVED_ROW"),
     new_key_count |-> StatusCount(rows, "NEW_KEY"),
     removed_key_count |-> StatusCount(rows, "REMOVED_KEY")]

(***************************************************************************)
(* One call of ComparisonEngine.compare(df_a, df_b), step by step.         *)
(***************************************************************************)
VARIABLES
    df_a, df_b,       \* the caller's tables
    config,           \* self.config
    same_nan,         \* whether the NaN key cells are one float object
    pc,               \* the statement of compare() reached
    na, nb,           \* the local df_a, df_b: the normalized copies
    keys_a, keys_b,   \* the unique keys of each table
    keys_only_a, keys_only_b, keys_common,
    order_a, order_b, \* sorted(keys_only_a), sorted(keys_only_b)
    aligned_rows,     \* the list aligned_rows
    result,           \* the ComparisonResult returned
    error,            \* the exception raised
    mode_key_based,   \* gui_main.py: the key-based mode is selected
    keys_checked,     \* gui_main.py: some key checkbox is checked
    compare_btn,      \* gui_main.py: compare_btn (and config_group) is enabled
    workers           \* gui_main.py: the ComparisonWorker threads started, in order

vars == <<df_a, df_b, config, same_nan, pc, na, nb, keys_a, keys_b,
          keys_only_a, keys_only_b, keys_common, order_a, order_b,
          aligned_rows, result, error,
          mode_key_based, keys_checked, compare_btn, workers>>

\* the state of the window of gui_main.py
gui_vars == <<mode_key_based, keys_checked, compare_btn, workers>>

\* the state of one call of compare
engine_vars == <<df_a, df_b, config, same_nan, pc, na, nb, keys_a, keys_b,
                 keys_only_a, keys_only_b, keys_common, order_a, order_b,
                 aligned_rows, result, error>>

\* the window as it opens: key-based mode, no key checked, the Compare
\* button enabled, no worker started
GuiIdle ==
    /\ mode_key_based = TRUE
    /\ keys_checked = FALSE
    /\ compare_btn = TRUE
    /\ workers = <<>>

NoTable == [columns |-> <<>>, rows |-> <<>>, objcols |-> {}]
NoResult == [returned |-> FALSE]

\* the local state of a call before its first statement
Entry ==
    /\ pc = "start"
    /\ na = NoTable /\ nb = NoTable
    /\ keys_a = {} /\ keys_b = {}
    /\ keys_only_a = {} /\ keys_only_b = {} /\ keys_common = {}
    /\ order_a = <<>> /\ order_b = <<>>
    /\ aligned_rows = <<>>
    /\ result = NoResult
    /\ error = NoError

\* NaN cells of two object columns can be the same object (numpy.nan); the
\* NaN cells taken from float columns never are
HasNullKey(cfg, df) ==
    \E r \in 1..Len(df.rows), i \in 1..Len(cfg.key_columns) :
        cfg.key_columns[i] \in ColSet(df) /\ IsNa(df.rows[r][cfg.key_columns[i]])

NaNMayBeShared(cfg, a, b) ==
    /\ ~cfg.trim_whitespace /\ cfg.case_sensitive
    /\ HasNullKey(cfg, a) \/ HasNullKey(cfg, b)
    /\ \A i \in 1..Len(cfg.key_columns) :
          cfg.key_columns[i] \in a.objcols \cap b.objcols

Raise(e) ==
    /\ pc' = "raised"
    /\ error' = e

\* lines 73-74: self._validate_dataframes(df_a, df_b)
Validate ==
    /\ UNCHANGED gui_vars
    /\ pc = "start"
    /\ LET e == ValidateDataframes(config, df_a, df_b) IN
       IF e # NoError THEN Raise(e) ELSE pc' = "validated" /\ error' = error
    /\ UNCHANGED <<df_a, df_b, config, same_nan, na, nb, keys_a, keys_b, keys_only_a,
                   keys_only_b, keys_common, order_a, order_b, aligned_rows, result>>

\* lines 76-78 without the copies: the caller's tables are normalized
NormalizeInPlace ==
    /\ UNCHANGED gui_vars
    /\ pc = "validated"
    /\ na' = NormalizeDataframe(config, df_a)
    /\ nb' = NormalizeDataframe(config, df_b)
    /\ df_a' = na'
    /\ df_b' = nb'
    /\ pc' = "normalized"
    /\ UNCHANGED <<config, same_nan, keys_a, keys_b, keys_only_a,
                   keys_only_b, keys_common, order_a, order_b, aligned_rows, result, error>>

\* lines 76-78: the copies are normalized
Normalize ==
    /\ UNCHANGED gui_vars
    /\ pc = "validated"
    /\ na' = NormalizeDataframe(config, df_a)
    /\ nb' = NormalizeDataframe(config, df_b)
    /\ pc' = "normalized"
    /\ UNCHANGED <<df_a, df_b, config, same_nan, keys_a, keys_b, keys_only_a,
                   keys_only_b, keys_common, order_a, order_b, aligned_rows, result, error>>

\* key in keys, as set membership decides it
InKeys(key, keys, shared) ==
    \E k \in keys : \A i \in 1..Len(key) : ElemEq(key[i], k[i], shared)

\* lines 80-87: the key sets
PartitionKeys ==
    /\ UNCHANGED gui_vars
    /\ pc = "normalized"
    /\ keys_a' = GetUniqueKeys(config, na)
    /\ keys_b' = GetUniqueKeys(config, nb)
    /\ keys_only_a' = {k \in keys_a' : ~InKeys(k, keys_b', same_nan)}
    /\ keys_only_b' = {k \in keys_b' : ~InKeys(k, keys_a', same_nan)}
    /\ keys_common' = {k \in keys_a' : InKeys(k, keys_b', same_nan)}
    /\ pc' = "partitioned"
    /\ UNCHANGED <<df_a, df_b, config, same_nan, na, nb, order_a, order_b,
                   aligned_rows, result, error>>

\* lines 92-95: the loop over sorted(keys_common)
ProcessCommonKeys ==
    /\ UNCHANGED gui_vars
    /\ pc = "partitioned"
    /\ \E o \in Sorted(keys_common, same_nan) :
          LET g == CompareCommonKeys(config, o.seq, na, nb) IN
          IF o.err \/ g.err
          THEN Raise(TypeError) /\ aligned_rows' = aligned_rows
          ELSE pc' = "common_done" /\ aligned_rows' = aligned_rows \o g.rows /\ error' = error
    /\ UNCHANGED <<df_a, df_b, config, same_nan, na, nb, keys_a, keys_b, keys_only_a,
                   keys_only_b, keys_common, order_a, order_b, result>>

\* lines 97-103: the loop over sorted(keys_only_a)
ProcessKeysOnlyA ==
    /\ UNCHANGED gui_vars
    /\ pc = "common_done"
    /\ \E o \in Sorted(keys_only_a, same_nan) :
          IF o.err
          THEN Raise(TypeError) /\ UNCHANGED <<aligned_rows, order_a>>
          ELSE /\ pc' = "only_a_done"
               /\ order_a' = o.seq
               /\ aligned_rows' = aligned_rows \o EmitOneSided(config, o.seq, na, "REMOVED_KEY")
               /\ error' = error
    /\ UNCHANGED <<df_a, df_b, config, same_nan, na, nb, keys_a, keys_b, keys_only_a,
                   keys_only_b, keys_common, order_b, result>>

\* lines 105-111: the loop over sorted(keys_only_b)
ProcessKeysOnlyB ==
    /\ UNCHANGED gui_vars
    /\ pc = "only_a_done"
    /\ \E o \in Sorted(keys_only_b, same_nan) :
          IF o.err
          THEN Raise(TypeError) /\ UNCHANGED <<aligned_rows, order_b>>
          ELSE /\ pc' = "only_b_done"
               /\ order_b' = o.seq
               /\ aligned_rows' = aligned_rows \o EmitOneSided(config, o.seq, nb, "NEW_KEY")
               /\ error' = error
    /\ UNCHANGED <<df_a, df_b, config, same_nan, na, nb, keys_a, keys_b, keys_only_a,
                   keys_only_b, keys_common, order_a, result>>

\* lines 113-132 with total_rows_b reading the length of df_a
SummarizePasted ==
    /\ UNCHANGED gui_vars
    /\ pc = "only_b_done"
    /\ IF aligned_rows = <<>>
       THEN Raise(KeyError("status", "aligned_df")) /\ result' = result
       ELSE /\ result' =
                 [returned |-> TRUE,
                  summary |-> GenerateSummary(aligned_rows, Cardinality(keys_a),
                                              Cardinality(keys_b), Cardinality(keys_common)),
                  aligned_data |-> aligned_rows,
                  key_only_in_a |-> order_a,
                  key_only_in_b |-> order_b,
                  comparison_metadata |->
                     [config |-> config,
                      total_keys_compared |-> Cardinality(keys_common),
                      total_rows_a |-> Len(na.rows),
                      total_rows_b |-> Len(na.rows)]]
            /\ pc' = "done"
            /\ error' = error
    /\ UNCHANGED <<df_a, df_b, config, same_nan, na, nb, keys_a, keys_b, keys_only_a,
                   keys_only_b, keys_common, order_a, order_b, aligned_rows>>
\* lines 113-132: the aligned DataFrame, the summary and the result; with no
\* aligned row the DataFrame has no 'status' column and the lookup raises
Summarize ==
    /\ UNCHANGED gui_vars
    /\ pc = "only_b_done"
    /\ IF aligned_rows = <<>>
       THEN Raise(KeyError("status", "aligned_df")) /\ result' = result
       ELSE /\ result' =
                 [returned |-> TRUE,
                  summary |-> GenerateSummary(aligned_rows, Cardinality(keys_a),
                                              Cardinality(keys_b), Cardinality(keys_common)),
                  aligned_data |-> aligned_rows,
                  key_only_in_a |-> order_a,
                  key_only_in_b |-> order_b,
                  comparison_metadata |->
                     [config |-> config,
                      total_keys_compared |-> Cardinality(keys_common),
                      total_rows_a |-> Len(na.rows),
                      total_rows_b |-> Len(nb.rows)]]
            /\ pc' = "done"
            /\ error' = error
    /\ UNCHANGED <<df_a, df_b, config, same_nan, na, nb, keys_a, keys_b, keys_only_a,
                   keys_only_b, keys_common, order_a, order_b, aligned_rows>>

Next ==
    \/ Validate
    \/ Normalize
    \/ PartitionKeys
    \/ ProcessCommonKeys
    \/ ProcessKeysOnlyA
    \/ ProcessKeysOnlyB
    \/ Summarize

(***************************************************************************)
(* The inputs of the call.  Tables of at most MaxRows rows.                *)
(***************************************************************************)
MaxRows == 2

SeqsUpTo(S, n) == UNION {[1..k -> S] : k \in 0..n}

\* the rows over two columns c1, c2 with cells from S1, S2
Rows2(c1, S1, c2, S2) == {[c \in {c1, c2} |-> IF c = c1 THEN v1 ELSE v2] : v1 \in S1, v2 \in S2}

Rows1(c1, S1) == {[c \in {c1} |-> v1] : v1 \in S1}

Tables2(c1, S1, c2, S2, n) == {MkTable(<<c1, c2>>, rows) : rows \in SeqsUpTo(Rows2(c1, S1, c2, S2), n)}

Tables1(c1, S1, n) == {MkTable(<<c1>>, rows) : rows \in SeqsUpTo(Rows1(c1, S1), n)}

DefaultConfig == MkConfig(<<"ID">>, "position", NoColumn, FALSE, TRUE)

\* a composite key over both columns
CompositeConfig == MkConfig(<<"ID", "V">>, "position", NoColumn, FALSE, TRUE)

\* numeric tables with blanks: a key column ID and a value column V, and the
\* tables that lack one of the two columns
NumTables ==
    Tables2("ID", {Null, Num(1), Num(2)}, "V", {Null, Num(1)}, MaxRows)
        \cup Tables1("V", {Num(1)}, 1)
        \cup Tables1("ID", {Num(1)}, 1)

InitInputs(tables_a, tables_b, configs) ==
    /\ df_a \in tables_a
    /\ df_b \in tables_b
    /\ config \in configs
    /\ same_nan \in IF NaNMayBeShared(config, df_a, df_b) THEN BOOLEAN ELSE {FALSE}
    /\ Entry
    /\ GuiIdle

Init == InitInputs(NumTables, NumTables, {DefaultConfig})

Spec == Init /\ [][Next]_vars

\* small numeric tables under a single and under a composite key
SmallNumTables ==
    Tables2("ID", {Null, Num(1)}, "V", {Null, Num(1)}, MaxRows)
        \cup Tables1("V", {Num(1)}, 1)
        \cup Tables1("ID", {Num(1)}, 1)

InitComposite == InitInputs(SmallNumTables, SmallNumTables, {DefaultConfig, CompositeConfig})

SpecComposite == InitComposite /\ [][Next]_vars

\* tables with a numeric key column and a value column of texts and blanks,
\* under the four settings of the two normalization flags
TextTables ==
    Tables2("ID", {Num(1), Num(2)}, "V", {Null, Str(<<"n", "a", "n">>), Str(<<"x">>)}, MaxRows)
        \cup Tables1("V", {Str(<<"x">>)}, 1)

FlagConfigs == {MkConfig(<<"ID">>, "position", NoColumn, cs, trim) : cs \in BOOLEAN, trim \in BOOLEAN}

InitText == InitInputs(TextTables, TextTables, FlagConfigs)

SpecText == InitText /\ [][Next]_vars

\* tables with a key column ID and a sort column D, tables that lack D and
\* tables that lack ID, under SecondarySort by D and under Position
SortConfig == MkConfig(<<"ID">>, "secondary_sort", "D", FALSE, TRUE)

SortTables ==
    Tables2("ID", {Num(1), Num(2)}, "D", {Null, Num(1), Num(2)}, MaxRows)
        \cup Tables2("ID", {Num(1)}, "V", {Num(1), Num(2)}, MaxRows)
        \cup Tables1("D", {Num(1)}, 1)

InitSort == InitInputs(SortTables, SortTables, {SortConfig, DefaultConfig})

SpecSort == InitSort /\ [][Next]_vars

(***************************************************************************)
(* Vocabulary of the properties.  Keys are compared structurally here: a   *)
(* null cell is a cell value like any other.                               *)
(***************************************************************************)
Statuses == {"MATCH", "MODIFIED", "ADDED_ROW", "REMOVED_ROW", "NEW_KEY", "REMOVED_KEY"}

Done == pc = "done"
Raised == pc = "raised"

\* some configured key column is absent from A or from B
MissingKeyColumn == \E c \in KeyColSet(config) : c \notin ColSet(df_a) \/ c \notin ColSet(df_b)

\* the key tuples of the rows of a normalized table
KeyTuples(df) == {[i \in 1..Len(config.key_columns) |-> df.rows[r][config.key_columns[i]]] :
                     r \in 1..Len(df.rows)}

\* the positions of the rows of df whose key tuple is k
RowsWithKey(df, k) ==
    {r \in 1..Len(df.rows) :
        \A i \in 1..Len(config.key_columns) : df.rows[r][config.key_columns[i]] = k[i]}

\* the number of aligned records of the result with the given status
CountOf(status) ==
    Cardinality({i \in 1..Len(result.aligned_data) : result.aligned_data[i].status = status})

\* C1: Identity: compare(T, T) returns modified_count = added_row_count =
\* removed_row_count = new_key_count = removed_key_count = 0 and
\* match_count = the number of rows of T.
C1_Identity ==
    (Done /\ df_a = df_b) =>
        /\ result.summary.modified_count = 0
        /\ result.summary.added_row_count = 0
        /\ result.summary.removed_row_count = 0
        /\ result.summary.new_key_count = 0
        /\ result.summary.removed_key_count = 0
        /\ result.summary.match_count = Len(df_a.rows)

\* C2: Status sum: in every result every aligned record has one of the six
\* statuses, each of the six counts of the summary is the number of records
\* with that status, and the six counts add up to total_rows_compared, the
\* number of aligned records.
C2_StatusSum ==
    Done =>
        LET s == result.summary IN
        /\ \A i \in 1..Len(result.aligned_data) : result.aligned_data[i].status \in Statuses
        /\ s.match_count = CountOf("MATCH")
        /\ s.modified_count = CountOf("MODIFIED")
        /\ s.added_row_count = CountOf("ADDED_ROW")
        /\ s.removed_row_count = CountOf("REMOVED_ROW")
        /\ s.new_key_count = CountOf("NEW_KEY")
        /\ s.removed_key_count = CountOf("REMOVED_KEY")
        /\ s.match_count + s.modified_count + s.added_row_count + s.removed_row_count
              + s.new_key_count + s.removed_key_count = s.total_rows_compared
        /\ s.total_rows_compared = Len(result.aligned_data)

\* a result holding a Modified, a RemovedRow and a NewKey record
C2_Witness ==
    /\ Done
    /\ CountOf("MODIFIED") > 0
    /\ CountOf("REMOVED_ROW") > 0
    /\ CountOf("NEW_KEY") > 0

\* C3: Key-set partition: in every result keys_in_common + keys_only_in_a =
\* total_unique_keys_a and keys_in_common + keys_only_in_b =
\* total_unique_keys_b, where the totals are the numbers of distinct
\* normalized key tuples of A and of B and keys_in_common is the number of
\* key tuples present in both.
C3_KeySetPartition ==
    Done =>
        LET s == result.summary IN
        /\ s.keys_in_common + s.keys_only_in_a = s.total_unique_keys_a
        /\ s.keys_in_common + s.keys_only_in_b = s.total_unique_keys_b
        /\ s.total_unique_keys_a = Cardinality(KeyTuples(na))
        /\ s.total_unique_keys_b = Cardinality(KeyTuples(nb))
        /\ s.keys_in_common = Cardinality(KeyTuples(na) \cap KeyTuples(nb))

\* C4: Fail-fast validation: when a configured key column is absent from A
\* or from B, compare raises a missing-key-column error that names an
\* absent key column and the table it is absent from, before any
\* normalization and without any result.
C4_FailFastValidation ==
    (MissingKeyColumn /\ pc # "start") =>
        /\ Raised
        /\ error.kind = "KeyError"
        /\ error.column \in KeyColSet(config)
        /\ error.table \in {"File A", "File B"}
        /\ error.table = "File A" => error.column \notin ColSet(df_a)
        /\ error.table = "File B" => error.column \notin ColSet(df_b)
        /\ na = NoTable /\ nb = NoTable
        /\ aligned_rows = <<>>
        /\ result = NoResult

\* the call has raised for a key column that A has and B lacks
C4_Witness ==
    /\ Raised
    /\ error.table = "File B"
    /\ error.column \in ColSet(df_a)
    /\ Len(df_a.rows) > 0

\* the rows of df whose key tuple is k, in table order
GroupOf(df, k) ==
    SelectSeq(df.rows,
              LAMBDA row : \A i \in 1..Len(config.key_columns) : row[config.key_columns[i]] = k[i])

\* the aligned records of the result whose key is k, in output order
RecordsOf(k) == SelectSeq(result.aligned_data, LAMBDA rec : rec.key = k)

\* the cells of a row outside the key columns
NonKeyPart(df, row) == [c \in ColSet(df) \ KeyColSet(config) |-> row[c]]

Min(m, n) == IF m <= n THEN m ELSE n

\* the records of key k follow the pairing policy for the groups ga of A and
\* gb of B (paired tells whether the rows paired are to be compared too)
PairingPolicy(k, ga, gb, paired) ==
    LET recs == RecordsOf(k) IN
    /\ Len(recs) = Max(Len(ga), Len(gb))
    /\ \A i \in 1..Len(recs) :
          /\ i <= Min(Len(ga), Len(gb)) =>
                /\ recs[i].status \in {"MATCH", "MODIFIED"}
                /\ paired => /\ recs[i].A = NonKeyPart(na, ga[i])
                             /\ recs[i].B = NonKeyPart(nb, gb[i])
          /\ (i > Len(gb) /\ i <= Len(ga)) =>
                /\ recs[i].status = "REMOVED_ROW"
                /\ recs[i].B = <<>>
          /\ (i > Len(ga) /\ i <= Len(gb)) =>
                /\ recs[i].status = "ADDED_ROW"
                /\ recs[i].A = <<>>

\* C5: Pairing policy within a common key: a key with m rows in A and n rows
\* in B gets exactly max(m, n) records; record i pairs the i-th row of A's
\* group with the i-th row of B's group (in table order under Position
\* alignment) for i < min(m, n) and is Match or Modified; the trailing
\* records are all RemovedRow without row_b when m > n, all AddedRow without
\* row_a when n > m.
C5_PairingPolicy ==
    Done =>
        \A k \in KeyTuples(na) \cap KeyTuples(nb) :
            PairingPolicy(k, GroupOf(na, k), GroupOf(nb, k),
                          config.alignment_method = "position")

\* C6: One-sided keys: each key present only in A gets exactly one record
\* per row of A having that key, with status RemovedKey and no row_b; each
\* key present only in B one record per row of B having it, with status
\* NewKey and no row_a; so removed_key_count (new_key_count) is the number of
\* rows of A (B) whose key is absent from the other table.
C6_OneSidedKeys ==
    Done =>
        /\ \A k \in KeyTuples(na) \ KeyTuples(nb) :
              /\ Len(RecordsOf(k)) = Len(GroupOf(na, k))
              /\ \A i \in 1..Len(RecordsOf(k)) :
                    RecordsOf(k)[i].status = "REMOVED_KEY" /\ RecordsOf(k)[i].B = <<>>
        /\ \A k \in KeyTuples(nb) \ KeyTuples(na) :
              /\ Len(RecordsOf(k)) = Len(GroupOf(nb, k))
              /\ \A i \in 1..Len(RecordsOf(k)) :
                    RecordsOf(k)[i].status = "NEW_KEY" /\ RecordsOf(k)[i].A = <<>>
        /\ result.summary.removed_key_count =
              Cardinality({r \in 1..Len(na.rows) : \A k \in KeyTuples(nb) : r \notin RowsWithKey(na, k)})
        /\ result.summary.new_key_count =
              Cardinality({r \in 1..Len(nb.rows) : \A k \in KeyTuples(na) : r \notin RowsWithKey(nb, k)})

\* C8: Totality after validation: when both tables hold every configured
\* key column, compare returns a result and never raises; the only failure
\* of compare is the validation error.
C8_Totality == Raised => MissingKeyColumn

\* the columns both tables have outside the key
ComparedCols == (ColSet(df_a) \cap ColSet(df_b)) \ KeyColSet(config)

\* C7: Null handling: in a present/present pair a compared column that is
\* null on both sides counts as equal, and a compared column that is null on
\* exactly one side makes the pair Modified, whichever side is null and
\* whatever the other value is, texts included.  (The rows are the caller's
\* rows; the key column of these tables is numeric, so a key group is the
\* same before and after normalization.)
C7_NullHandling ==
    Done =>
        \A k \in KeyTuples(df_a) \cap KeyTuples(df_b) :
            \A i \in 1..Min(Len(GroupOf(df_a, k)), Len(GroupOf(df_b, k))) :
                LET ra == GroupOf(df_a, k)[i]
                    rb == GroupOf(df_b, k)[i]
                    rec == RecordsOf(k)[i]
                IN /\ (\E c \in ComparedCols : IsNa(ra[c]) # IsNa(rb[c])) => rec.status = "MODIFIED"
                   /\ (\A c \in ComparedCols : IsNa(ra[c]) /\ IsNa(rb[c])) => rec.status = "MATCH"

\* the rows of gb are the rows of ga in some order
SameRows(ga, gb) ==
    /\ Len(ga) = Len(gb)
    /\ \A row \in {ga[i] : i \in 1..Len(ga)} \cup {gb[i] : i \in 1..Len(gb)} :
          Cardinality({i \in 1..Len(ga) : ga[i] = row}) =
              Cardinality({i \in 1..Len(gb) : gb[i] = row})

DistinctOn(g, col) == \A i, j \in 1..Len(g) : i # j => g[i][col] # g[j][col]

SortCol == config.secondary_sort_column

\* the number sorted on, nulls counted after every number
SortRank(v) == IF IsNa(v) THEN 1000000 ELSE v.n

\* the side entries (A or B) of the records that have them ascend on col
Ascending(sides, col) ==
    \A i, j \in 1..Len(sides) :
        (i < j /\ sides[i] # <<>> /\ sides[j] # <<>>) =>
            SortRank(sides[i][col]) <= SortRank(sides[j][col])

SidesA(recs) == [i \in 1..Len(recs) |-> recs[i].A]
SidesB(recs) == [i \in 1..Len(recs) |-> recs[i].B]

\* C9: Secondary-sort alignment: under SecondarySort the rows of A and the
\* rows of B of every common key are each ordered ascending by the sort
\* column before they are paired by position, so two groups holding the same
\* rows in different orders, with distinct sort values, give Match records
\* only; under Position the same groups are paired in table order.
C9_SecondarySort ==
    Done =>
        \A k \in KeyTuples(na) \cap KeyTuples(nb) :
            LET ga == GroupOf(na, k)
                gb == GroupOf(nb, k)
                recs == RecordsOf(k)
            IN IF config.alignment_method = "secondary_sort"
               THEN SortCol \in ColSet(df_a) \cap ColSet(df_b) =>
                       /\ Ascending(SidesA(recs), SortCol)
                       /\ Ascending(SidesB(recs), SortCol)
                       /\ (SameRows(ga, gb) /\ DistinctOn(ga, SortCol)) =>
                             \A i \in 1..Len(recs) : recs[i].status = "MATCH"
               ELSE \A i \in 1..Len(recs) :
                       /\ i <= Len(ga) => recs[i].A = NonKeyPart(na, ga[i])
                       /\ i <= Len(gb) => recs[i].B = NonKeyPart(nb, gb[i])

\* SecondarySort has matched two groups that hold the same two rows in
\* opposite orders
C9_Witness ==
    /\ Done
    /\ config.alignment_method = "secondary_sort"
    /\ SortCol \in ColSet(df_a) \cap ColSet(df_b)
    /\ \E k \in KeyTuples(na) \cap KeyTuples(nb) :
          /\ Len(GroupOf(na, k)) = 2
          /\ GroupOf(nb, k) = Reverse(GroupOf(na, k))
          /\ DistinctOn(GroupOf(na, k), SortCol)
          /\ SortRank(GroupOf(na, k)[1][SortCol]) > SortRank(GroupOf(na, k)[2][SortCol])
          /\ \A i \in 1..2 : RecordsOf(k)[i].status = "MATCH"

\* a secondary sort column is configured and A or B lacks it
SortColumnMissing == SortCol # NoColumn /\ (SortCol \notin ColSet(df_a) \/ SortCol \notin ColSet(df_b))

\* C10: Missing secondary-sort column is a validation error: when
\* secondary_sort_column is configured and absent from A or from B, compare
\* raises a missing-column error during validation, before normalization and
\* any comparison work, and returns no result.
C10_MissingSortColumnRaises ==
    (SortColumnMissing /\ pc # "start") =>
        /\ Raised
        /\ error.kind = "KeyError"
        /\ na = NoTable /\ nb = NoTable
        /\ result = NoResult

\* C10 as amended: a missing secondary-sort column is no validation error.
\* When secondary_sort_column is configured and absent from A or from B
\* while every key column is present, validation passes, no error names the
\* sort column, and the rows of the table that lacks the column are paired
\* in table order within each key.
C10_MissingSortColumnTolerated ==
    (SortColumnMissing /\ ~MissingKeyColumn) =>
        /\ Raised => error \in {KeyError("status", "aligned_df"), TypeError}
        /\ Done =>
              \A k \in KeyTuples(na) \cap KeyTuples(nb) :
                  /\ SortCol \notin ColSet(df_a) =>
                        \A i \in 1..Len(GroupOf(na, k)) :
                            RecordsOf(k)[i].A = NonKeyPart(na, GroupOf(na, k)[i])
                  /\ SortCol \notin ColSet(df_b) =>
                        \A i \in 1..Len(GroupOf(nb, k)) :
                            RecordsOf(k)[i].B = NonKeyPart(nb, GroupOf(nb, k)[i])

\* a result under SecondarySort by D for a table B that lacks D and holds
\* two different rows of one key
C10_Witness ==
    /\ Done
    /\ config.alignment_method = "secondary_sort"
    /\ SortCol \in ColSet(df_a)
    /\ SortCol \notin ColSet(df_b)
    /\ \E k \in KeyTuples(na) \cap KeyTuples(nb) :
          /\ Len(GroupOf(nb, k)) = 2
          /\ GroupOf(nb, k)[1] # GroupOf(nb, k)[2]

(***************************************************************************)
(* Textual keys and textual cells under the normalization flags.           *)
(***************************************************************************)
\* spellings of one name that differ in letter case and outer whitespace
Spellings == {Str(<<"a">>), Str(<<"A">>), Str(<<" ", "a">>)}

\* tables with a textual key column ID and a numeric value column V
KeyTextTables == Tables2("ID", Spellings, "V", {Num(1)}, MaxRows)

InitKeyText == InitInputs(KeyTextTables, KeyTextTables, FlagConfigs)

SpecKeyText == InitKeyText /\ [][Next]_vars

\* tables with a numeric key column ID and a textual value column V
CellTextTables == Tables2("ID", {Num(1)}, "V", Spellings, MaxRows)

InitCellText == InitInputs(CellTextTables, CellTextTables, FlagConfigs)

SpecCellText == InitCellText /\ [][Next]_vars

\* two texts that the flags of the configuration declare the same: they
\* differ at most in outer whitespace (when trimming is on) and in letter
\* case (when case is ignored)
SameText(x, y) ==
    LET tx == IF config.trim_whitespace THEN Strip(x.s) ELSE x.s
        ty == IF config.trim_whitespace THEN Strip(y.s) ELSE y.s
    IN IF config.case_sensitive THEN tx = ty ELSE Lower(tx) = Lower(ty)

\* the key column of the single-column key
KeyCol == config.key_columns[1]

\* the rows of df whose raw key text the flags declare the same as x
SameKeyRows(df, x) == {r \in 1..Len(df.rows) : SameText(df.rows[r][KeyCol], x)}

\* C11: Normalization applies to key cells: two textual key values, in one
\* table or across A and B, that differ only in what the flags normalize
\* away give the same key tuple; their rows fall in one key group (the key
\* gets max(m, n) records for its m rows of A and n rows of B), the key is
\* counted once, and it is common (never listed or reported as one-sided)
\* when it occurs in both tables.
C11_KeyNormalization ==
    Done =>
        /\ \A i \in 1..Len(df_a.rows), j \in 1..Len(df_b.rows) :
              SameText(df_a.rows[i][KeyCol], df_b.rows[j][KeyCol]) =>
                 LET k == <<na.rows[i][KeyCol]>> IN
                 /\ <<nb.rows[j][KeyCol]>> = k
                 /\ k \in keys_common
                 /\ \A n \in 1..Len(result.key_only_in_a) : result.key_only_in_a[n] # k
                 /\ \A n \in 1..Len(result.key_only_in_b) : result.key_only_in_b[n] # k
                 /\ Len(RecordsOf(k)) = Max(Cardinality(SameKeyRows(df_a, df_a.rows[i][KeyCol])),
                                            Cardinality(SameKeyRows(df_b, df_a.rows[i][KeyCol])))
                 /\ \A n \in 1..Len(RecordsOf(k)) :
                       RecordsOf(k)[n].status \notin {"NEW_KEY", "REMOVED_KEY"}
        /\ \A i, j \in 1..Len(df_a.rows) :
              SameText(df_a.rows[i][KeyCol], df_a.rows[j][KeyCol]) =>
                 na.rows[i][KeyCol] = na.rows[j][KeyCol]
        /\ \A i, j \in 1..Len(df_b.rows) :
              SameText(df_b.rows[i][KeyCol], df_b.rows[j][KeyCol]) =>
                 nb.rows[i][KeyCol] = nb.rows[j][KeyCol]
        /\ result.summary.total_unique_keys_a
              = Cardinality({SameKeyRows(df_a, df_a.rows[i][KeyCol]) : i \in 1..Len(df_a.rows)})
        /\ result.summary.total_unique_keys_b
              = Cardinality({SameKeyRows(df_b, df_b.rows[i][KeyCol]) : i \in 1..Len(df_b.rows)})

\* with case ignored and trimming on, A spells one key in two ways and B in
\* a third way, and the key is the only common key of the result
C11_Witness ==
    /\ Done
    /\ ~config.case_sensitive /\ config.trim_whitespace
    /\ Len(df_a.rows) = 2
    /\ df_a.rows[1][KeyCol] = Str(<<"A">>)
    /\ df_a.rows[2][KeyCol] = Str(<<" ", "a">>)
    /\ Len(df_b.rows) = 1
    /\ df_b.rows[1][KeyCol] = Str(<<"a">>)
    /\ result.summary.keys_in_common = 1
    /\ result.summary.total_unique_keys_a = 1
    /\ result.summary.removed_row_count = 1

\* the non-key columns on which the rows ra of A and rb of B differ
DifferingCols(ra, rb) ==
    {c \in (ColSet(df_a) \cap ColSet(df_b)) \ KeyColSet(config) : ra[c] # rb[c]}

\* x and y are two texts that differ, and only in outer whitespace
WhitespaceOnly(x, y) == x.t = "str" /\ y.t = "str" /\ x # y /\ Strip(x.s) = Strip(y.s)

\* x and y are two texts that differ, and only in letter case
CaseOnly(x, y) == x.t = "str" /\ y.t = "str" /\ x # y /\ Lower(x.s) = Lower(y.s)

\* C12: Normalization flags govern cell equality: a present/present pair
\* whose only difference is one textual non-key cell is Match when the two
\* texts differ only in outer whitespace and trim_whitespace is true, and
\* Modified when it is false; it is Match when they differ only in letter
\* case and case_sensitive is false, and Modified when it is true.
C12_FlagsGovernEquality ==
    Done =>
        \A k \in KeyTuples(df_a) \cap KeyTuples(df_b) :
            LET ga == GroupOf(df_a, k)
                gb == GroupOf(df_b, k)
                recs == RecordsOf(k)
            IN \A i \in 1..Min(Len(ga), Len(gb)) :
                  \A c \in DifferingCols(ga[i], gb[i]) :
                      DifferingCols(ga[i], gb[i]) = {c} =>
                         /\ WhitespaceOnly(ga[i][c], gb[i][c]) =>
                               recs[i].status = IF config.trim_whitespace THEN "MATCH" ELSE "MODIFIED"
                         /\ CaseOnly(ga[i][c], gb[i][c]) =>
                               recs[i].status = IF config.case_sensitive THEN "MODIFIED" ELSE "MATCH"

\* the result holds a pair matched over a difference in whitespace and a
\* pair reported Modified over a difference in letter case
C12_Witness ==
    /\ Done
    /\ config.trim_whitespace /\ config.case_sensitive
    /\ Len(df_a.rows) = 2 /\ Len(df_b.rows) = 2
    /\ WhitespaceOnly(df_a.rows[1]["V"], df_b.rows[1]["V"])
    /\ CaseOnly(df_a.rows[2]["V"], df_b.rows[2]["V"])
    /\ result.aligned_data[1].status = "MATCH"
    /\ result.aligned_data[2].status = "MODIFIED"

\* the elements of a list, and whether it lists each of them once
Elems(xs) == {xs[i] : i \in 1..Len(xs)}
NoRepeat(xs) == \A i, j \in 1..Len(xs) : xs[i] = xs[j] => i = j

\* C13: Key-difference lists: in every result key_only_in_a is exactly the
\* set of key tuples that occur in normalized A and not in B, and
\* key_only_in_b those that occur in B and not in A, each key listed once;
\* the two lists are disjoint from each other and from the common keys, and
\* their lengths are the counts keys_only_in_a and keys_only_in_b of the
\* summary.
C13_KeyDifferenceLists ==
    Done =>
        /\ Elems(result.key_only_in_a) = KeyTuples(na) \ KeyTuples(nb)
        /\ Elems(result.key_only_in_b) = KeyTuples(nb) \ KeyTuples(na)
        /\ NoRepeat(result.key_only_in_a)
        /\ NoRepeat(result.key_only_in_b)
        /\ Elems(result.key_only_in_a) \cap Elems(result.key_only_in_b) = {}
        /\ Elems(result.key_only_in_a) \cap (KeyTuples(na) \cap KeyTuples(nb)) = {}
        /\ Elems(result.key_only_in_b) \cap (KeyTuples(na) \cap KeyTuples(nb)) = {}
        /\ Len(result.key_only_in_a) = result.summary.keys_only_in_a
        /\ Len(result.key_only_in_b) = result.summary.keys_only_in_b

\* C14: Status scope: every record with status Match, Modified, AddedRow or
\* RemovedRow has a key that occurs in both tables; every RemovedKey record
\* has a key occurring only in A and every NewKey record a key occurring
\* only in B.
C14_StatusScope ==
    Done =>
        \A n \in 1..Len(result.aligned_data) :
            LET rec == result.aligned_data[n] IN
            /\ rec.status \in {"MATCH", "MODIFIED", "ADDED_ROW", "REMOVED_ROW"} =>
                  rec.key \in KeyTuples(na) \cap KeyTuples(nb)
            /\ rec.status = "REMOVED_KEY" => rec.key \in KeyTuples(na) \ KeyTuples(nb)
            /\ rec.status = "NEW_KEY" => rec.key \in KeyTuples(nb) \ KeyTuples(na)

\* a result with an unpaired row of A under a common key and with a row of
\* B under a key of B only
C14_Witness ==
    /\ Done
    /\ CountOf("REMOVED_ROW") > 0
    /\ CountOf("NEW_KEY") > 0

\* A record carries the row of A (of B) as its A_<col> (B_<col>) entries,
\* one per non-key column of the table; without the row it carries none.
HasRowA(rec) == DOMAIN rec.A = ColSet(df_a) \ KeyColSet(config)
HasRowB(rec) == DOMAIN rec.B = ColSet(df_b) \ KeyColSet(config)
LacksRowA(rec) == DOMAIN rec.A = {}
LacksRowB(rec) == DOMAIN rec.B = {}

\* C15: Record shape: in every aligned record row_a and row_b are both
\* present iff the status is Match or Modified; row_a is absent and row_b
\* present iff the status is AddedRow or NewKey; row_a is present and row_b
\* absent iff the status is RemovedRow or RemovedKey; no record has both
\* rows absent (the rows being told apart wherever the tables have a
\* non-key column).
C15_RecordShape ==
    Done =>
        \A n \in 1..Len(result.aligned_data) :
            LET rec == result.aligned_data[n] IN
            /\ rec.status \in Statuses
            /\ rec.status \in {"MATCH", "MODIFIED"} => HasRowA(rec) /\ HasRowB(rec)
            /\ rec.status \in {"ADDED_ROW", "NEW_KEY"} => LacksRowA(rec) /\ HasRowB(rec)
            /\ rec.status \in {"REMOVED_ROW", "REMOVED_KEY"} => HasRowA(rec) /\ LacksRowB(rec)
            /\ (ColSet(df_a) \ KeyColSet(config) # {} /\ ColSet(df_b) \ KeyColSet(config) # {}) =>
                  ~(LacksRowA(rec) /\ LacksRowB(rec))

\* a result over tables with a non-key column holding a paired record, a
\* record of A alone and a record of B alone
C15_Witness ==
    /\ Done
    /\ ColSet(df_a) \ KeyColSet(config) # {}
    /\ ColSet(df_b) \ KeyColSet(config) # {}
    /\ \E n \in 1..Len(result.aligned_data) : result.aligned_data[n].status \in {"MATCH", "MODIFIED"}
    /\ \E n \in 1..Len(result.aligned_data) : result.aligned_data[n].status \in {"REMOVED_ROW", "REMOVED_KEY"}
    /\ \E n \in 1..Len(result.aligned_data) : result.aligned_data[n].status \in {"ADDED_ROW", "NEW_KEY"}

(***************************************************************************)
(* Tables with two value columns, in either column order, and a table that *)
(* lacks one of them.                                                      *)
(***************************************************************************)
Rows3(c1, S1, c2, S2, c3, S3) ==
    {[c \in {c1, c2, c3} |-> IF c = c1 THEN v1 ELSE IF c = c2 THEN v2 ELSE v3] :
        v1 \in S1, v2 \in S2, v3 \in S3}

Tables3(c1, S1, c2, S2, c3, S3, n) ==
    {MkTable(<<c1, c2, c3>>, rows) : rows \in SeqsUpTo(Rows3(c1, S1, c2, S2, c3, S3), n)}

WideTables ==
    Tables3("ID", {Num(1)}, "V", {Num(1), Num(2)}, "W", {Null, Num(1)}, MaxRows)
        \cup Tables3("ID", {Num(1)}, "W", {Null, Num(1)}, "V", {Num(1), Num(2)}, 1)
        \cup Tables2("ID", {Num(1)}, "W", {Null, Num(1)}, 1)

InitWide == InitInputs(WideTables, WideTables, {DefaultConfig})

SpecWide == InitWide /\ [][Next]_vars

\* two cells of a record are equal: both null, or both not null and the same
CellsEqual(x, y) == (IsNa(x) /\ IsNa(y)) \/ (~IsNa(x) /\ ~IsNa(y) /\ x = y)

\* the columns of a record present in both of its rows on which they differ
UnequalCols(rec) == {c \in DOMAIN rec.A \cap DOMAIN rec.B : ~CellsEqual(rec.A[c], rec.B[c])}

\* C16: Changed columns: a present/present pair is Match iff every compared
\* column is equal and Modified otherwise; changed_columns of a Modified
\* record is non-empty and is exactly the list, in the column order of
\* row_a, of all the non-key columns present in both rows whose values are
\* unequal; it is populated for no other status.
C16_ChangedColumns ==
    Done =>
        \A n \in 1..Len(result.aligned_data) :
            LET rec == result.aligned_data[n] IN
            /\ rec.status \in {"MATCH", "MODIFIED"} =>
                  (rec.status = "MATCH" <=> UnequalCols(rec) = {})
            /\ rec.status = "MODIFIED" =>
                  /\ rec.has_changed_cells
                  /\ rec.changed_cells # <<>>
                  /\ rec.changed_cells = SelectSeq(df_a.columns, LAMBDA c : c \in UnequalCols(rec))
            /\ rec.status # "MODIFIED" => ~rec.has_changed_cells /\ rec.changed_cells = <<>>

\* a Modified record whose rows differ in both value columns, the columns
\* of A being in another order than those of B
C16_Witness ==
    /\ Done
    /\ df_a.columns = <<"ID", "W", "V">>
    /\ df_b.columns = <<"ID", "V", "W">>
    /\ \E n \in 1..Len(result.aligned_data) :
          /\ result.aligned_data[n].status = "MODIFIED"
          /\ result.aligned_data[n].changed_cells = <<"W", "V">>

(***************************************************************************)
(* Tables of one more row than the others, over a numeric key column with  *)
(* blanks: three keys of which one is null can meet in one table.          *)
(***************************************************************************)
OrderRows == MaxRows + 1

OrderTables == Tables1("ID", {Null, Num(1), Num(2)}, OrderRows)

InitOrder == InitInputs(OrderTables, OrderTables, {DefaultConfig})

SpecOrder == InitOrder /\ [][Next]_vars

\* the records of the result with one of the given statuses, in output order
RecordsWith(statuses) == SelectSeq(result.aligned_data, LAMBDA rec : rec.status \in statuses)

\* C17: Determinism: compare is a function of its inputs: whatever order
\* the key sets are iterated in, the call returns the records of this
\* result in this order (and so the same summary), the common keys being
\* processed in ascending key order.
C17_Determinism ==
    Done =>
        /\ \A o \in Sorted(keys_common, same_nan) :
              ~o.err => CompareCommonKeys(config, o.seq, na, nb).rows
                           = RecordsWith({"MATCH", "MODIFIED", "ADDED_ROW", "REMOVED_ROW"})
        /\ \A o \in Sorted(keys_only_a, same_nan) :
              ~o.err => EmitOneSided(config, o.seq, na, "REMOVED_KEY") = RecordsWith({"REMOVED_KEY"})
        /\ \A o \in Sorted(keys_only_b, same_nan) :
              ~o.err => EmitOneSided(config, o.seq, nb, "NEW_KEY") = RecordsWith({"NEW_KEY"})
        /\ LET common == RecordsWith({"MATCH", "MODIFIED", "ADDED_ROW", "REMOVED_ROW"}) IN
           \A i, j \in 1..Len(common) :
              i < j => TupleLt(common[j].key, common[i].key, same_nan) # "lt"

\* C18: Inputs are never mutated: no step of compare, whether the call
\* returns or fails and whatever the configuration, changes a cell, a row
\* or a column of the caller's tables A and B; normalization writes to the
\* private copies only.
C18_InputsNotMutated == [][df_a' = df_a /\ df_b' = df_b]_vars

\* the call has returned after normalization rewrote cells of both copies
C18_Witness ==
    /\ Done
    /\ na.rows # df_a.rows
    /\ nb.rows # df_b.rows

\* the copies have been normalized
Normalized == pc \in {"normalized", "partitioned", "common_done", "only_a_done", "only_b_done", "done"}

\* the cells of df that are not texts are the same in the normalized copy n
NonTextKept(df, n) ==
    \A r \in 1..Len(df.rows) : \A c \in ColSet(df) :
        df.rows[r][c].t # "str" => n.rows[r][c] = df.rows[r][c]

\* C19: Normalization touches textual cells only: for every table and every
\* configuration, normalization leaves every cell that is not a text (a
\* number, a null) unchanged in value and type, also in a column that holds
\* texts as well.
C19_NormalizationTextOnly ==
    Normalized => NonTextKept(df_a, na) /\ NonTextKept(df_b, nb)

(***************************************************************************)
(* compare as a function: the outcomes a call on tables a and b under cfg  *)
(* can have, one per order in which the key sets can be iterated.  An      *)
(* outcome tells whether the call raised and, if not, the summary and the  *)
(* statuses of the aligned records in order.                               *)
(***************************************************************************)
RaisedOutcome == [raised |-> TRUE, summary |-> <<>>, statuses |-> <<>>]

ReturnedOutcome(summary, rows) ==
    [raised |-> FALSE, summary |-> summary, statuses |-> [i \in 1..Len(rows) |-> rows[i].status]]

CompareOutcomes(cfg, a, b, shared) ==
    IF ValidateDataframes(cfg, a, b) # NoError THEN {RaisedOutcome}
    ELSE LET n_a == NormalizeDataframe(cfg, a)
             n_b == NormalizeDataframe(cfg, b)
             k_a == GetUniqueKeys(cfg, n_a)
             k_b == GetUniqueKeys(cfg, n_b)
             only_a == {k \in k_a : ~InKeys(k, k_b, shared)}
             only_b == {k \in k_b : ~InKeys(k, k_a, shared)}
             common == {k \in k_a : InKeys(k, k_b, shared)}
         IN {LET g == CompareCommonKeys(cfg, oc.seq, n_a, n_b)
                 rows == g.rows \o EmitOneSided(cfg, oa.seq, n_a, "REMOVED_KEY")
                                \o EmitOneSided(cfg, ob.seq, n_b, "NEW_KEY")
             IN IF oc.err \/ g.err \/ oa.err \/ ob.err \/ rows = <<>> THEN RaisedOutcome
                ELSE ReturnedOutcome(GenerateSummary(rows, Cardinality(k_a), Cardinality(k_b),
                                                     Cardinality(common)), rows) :
                oc \in Sorted(common, shared), oa \in Sorted(only_a, shared),
                ob \in Sorted(only_b, shared)}

\* the outcome of the call, once it has returned or raised
Outcome == IF Done THEN ReturnedOutcome(result.summary, result.aligned_data) ELSE RaisedOutcome

\* a table with every text trimmed and lower-cased by the caller
TrimLower(v) == IF v.t = "str" THEN Str(Lower(Strip(v.s))) ELSE v

TrimLowerTable(df) ==
    [df EXCEPT !.rows = [r \in 1..Len(df.rows) |-> [c \in ColSet(df) |-> TrimLower(df.rows[r][c])]]]

\* the configuration with both normalizations switched off
RawConfig == [config EXCEPT !.trim_whitespace = FALSE, !.case_sensitive = TRUE]

\* C20: Normalization commutativity: a call on raw tables A and B with
\* trim_whitespace=true, case_sensitive=false gives the summary and the
\* record statuses that compare gives, with trim_whitespace=false and
\* case_sensitive=true, on the tables whose texts the caller has trimmed and
\* lower-cased.
C20_NormalizationCommutes ==
    ((Done \/ Raised) /\ config.trim_whitespace /\ ~config.case_sensitive) =>
        Outcome \in CompareOutcomes(RawConfig, TrimLowerTable(df_a), TrimLowerTable(df_b), FALSE)

\* the outcome of every call is one of the outcomes of compare as a function
OutcomeIsCompare ==
    (Done \/ Raised) => Outcome \in CompareOutcomes(config, df_a, df_b, same_nan)

(***************************************************************************)
(* A configuration asking for SecondarySort without naming a sort column.  *)
(***************************************************************************)
UnsortableConfig == MkConfig(<<"ID">>, "secondary_sort", NoColumn, FALSE, TRUE)

InitUnsortable == InitInputs(SmallNumTables, SmallNumTables, {UnsortableConfig})

SpecUnsortable == InitUnsortable /\ [][Next]_vars

\* C21: Invalid configuration is rejected before the engine runs: under a
\* configuration with alignment_method = SecondarySort and no
\* secondary_sort_column the call never gets past validation: it does no
\* normalization and no comparison work and returns no result.
C21_InvalidConfigRejected ==
    (config.alignment_method = "secondary_sort" /\ config.secondary_sort_column = NoColumn) =>
        /\ pc \in {"start", "raised"}
        /\ na = NoTable /\ nb = NoTable
        /\ aligned_rows = <<>>
        /\ result = NoResult

\* C22: Metadata round-trip: in every result the configuration of the
\* metadata is the configuration the engine was constructed with, in all
\* five fields; the row counts of the metadata are the numbers of rows of
\* the input tables A and B; and its count of compared keys is
\* keys_in_common of the summary.
C22_MetadataRoundTrip ==
    Done =>
        LET md == result.comparison_metadata IN
        /\ md.config.key_columns = config.key_columns
        /\ md.config.alignment_method = config.alignment_method
        /\ md.config.secondary_sort_column = config.secondary_sort_column
        /\ md.config.case_sensitive = config.case_sensitive
        /\ md.config.trim_whitespace = config.trim_whitespace
        /\ md.total_rows_a = Len(df_a.rows)
        /\ md.total_rows_b = Len(df_b.rows)
        /\ md.total_keys_compared = result.summary.keys_in_common

\* a result for tables of different sizes with a key of their own each
C22_Witness ==
    /\ Done
    /\ Len(df_a.rows) = 1
    /\ Len(df_b.rows) = 2
    /\ result.summary.keys_in_common = 1
    /\ result.summary.keys_only_in_b = 1

\* the non-key columns that only one of the two tables has
UnsharedCols ==
    ((ColSet(df_a) \cup ColSet(df_b)) \ (ColSet(df_a) \cap ColSet(df_b))) \ KeyColSet(config)

\* C23: Heterogeneous schemas: in classifying a present/present pair a
\* non-key column that only one of the two tables has is skipped: it never
\* appears in changed_columns, and two rows whose shared non-key columns are
\* all equal are Match whatever their unshared columns hold.
C23_HeterogeneousSchemas ==
    Done =>
        \A k \in KeyTuples(na) \cap KeyTuples(nb) :
            LET ga == GroupOf(na, k)
                gb == GroupOf(nb, k)
                recs == RecordsOf(k)
            IN \A i \in 1..Min(Len(ga), Len(gb)) :
                  /\ i <= Len(recs)
                  /\ (\A c \in ComparedCols : CellsEqual(ga[i][c], gb[i][c])) =>
                        recs[i].status = "MATCH"
                  /\ \A n \in 1..Len(recs[i].changed_cells) :
                        recs[i].changed_cells[n] \notin UnsharedCols

\* a pair is Match although table A has a value column that B lacks
C23_Witness ==
    /\ Done
    /\ df_a.columns = <<"ID", "V", "W">>
    /\ df_b.columns = <<"ID", "W">>
    /\ Len(result.aligned_data) = 2
    /\ result.aligned_data[1].status = "MATCH"
    /\ DOMAIN result.aligned_data[1].A = {"V", "W"}
    /\ DOMAIN result.aligned_data[1].B = {"W"}

\* the phase of compare that emits a record of the given status
Phase(status) ==
    CASE status \in {"MATCH", "MODIFIED", "ADDED_ROW", "REMOVED_ROW"} -> 1
      [] status = "REMOVED_KEY" -> 2
      [] OTHER -> 3

\* C25: Phase ordering of the output: the records of the common keys come
\* first, then the RemovedKey records, then the NewKey records; within each
\* phase the records are grouped by key in ascending key order, and the
\* records of one key are contiguous.
C25_PhaseOrdering ==
    Done =>
        LET recs == result.aligned_data IN
        \A i, j \in 1..Len(recs) :
            i < j =>
               /\ Phase(recs[i].status) <= Phase(recs[j].status)
               /\ Phase(recs[i].status) = Phase(recs[j].status) =>
                     TupleLt(recs[j].key, recs[i].key, FALSE) # "lt"
               /\ recs[i].key = recs[j].key =>
                     \A m \in i..j : recs[m].key = recs[i].key

\* the number of records of the result that carry a row of A (of B)
RecordsOfA == CountOf("MATCH") + CountOf("MODIFIED") + CountOf("REMOVED_ROW") + CountOf("REMOVED_KEY")
RecordsOfB == CountOf("MATCH") + CountOf("MODIFIED") + CountOf("ADDED_ROW") + CountOf("NEW_KEY")

\* C26: Row conservation: in every result each row of A is row_a of exactly
\* one record and each row of B row_b of exactly one record, rows with a
\* null key cell included: match_count + modified_count + removed_row_count
\* + removed_key_count is the number of rows of A, and match_count +
\* modified_count + added_row_count + new_key_count the number of rows of B.
C26_RowConservation ==
    Done =>
        LET s == result.summary IN
        /\ RecordsOfA = Len(df_a.rows)
        /\ RecordsOfB = Len(df_b.rows)
        /\ s.match_count + s.modified_count + s.removed_row_count + s.removed_key_count
              = Len(df_a.rows)
        /\ s.match_count + s.modified_count + s.added_row_count + s.new_key_count
              = Len(df_b.rows)

\* the summary s is the summary t with the roles of A and B exchanged
SwappedSummary(s, t) ==
    /\ s.match_count = t.match_count
    /\ s.modified_count = t.modified_count
    /\ s.keys_in_common = t.keys_in_common
    /\ s.total_rows_compared = t.total_rows_compared
    /\ s.added_row_count = t.removed_row_count
    /\ s.removed_row_count = t.added_row_count
    /\ s.new_key_count = t.removed_key_count
    /\ s.removed_key_count = t.new_key_count
    /\ s.keys_only_in_a = t.keys_only_in_b
    /\ s.keys_only_in_b = t.keys_only_in_a

\* C27: Swap duality: compare(B, A) has the match_count, modified_count,
\* keys_in_common and total_rows_compared of compare(A, B), with
\* added_row_count and removed_row_count exchanged, new_key_count and
\* removed_key_count exchanged and keys_only_in_a and keys_only_in_b
\* exchanged (and it raises when compare(A, B) raises).
C27_SwapDuality ==
    (Done \/ Raised) =>
        \A o \in CompareOutcomes(config, df_b, df_a, same_nan) :
            IF Raised THEN o.raised
            ELSE ~o.raised /\ SwappedSummary(o.summary, result.summary)

\* a result with one Modified pair, a record of B alone, and a key under
\* which a cell is null in A and not in B
C27_Witness ==
    /\ Done
    /\ result.summary.modified_count = 1
    /\ result.summary.added_row_count + result.summary.new_key_count = 1
    /\ \E i \in 1..Len(df_a.rows), j \in 1..Len(df_b.rows) :
          /\ df_a.rows[i]["ID"] = df_b.rows[j]["ID"]
          /\ IsNa(df_a.rows[i]["V"]) /\ ~IsNa(df_b.rows[j]["V"])

(***************************************************************************)
(* Position-only mode: the GUI passes key_columns = [] and tables read as  *)
(* text (blank cells are NaN).                                             *)
(***************************************************************************)
PositionOnlyConfig == MkConfig(<<>>, "position", NoColumn, FALSE, TRUE)

\* pd.read_excel(..., dtype=str): every column is an object column
SheetTables ==
    {[t EXCEPT !.objcols = ColSet(t)] :
        t \in Tables2("ID", {Str(<<"a">>), Str(<<"b">>)}, "V", {Null, Str(<<"x">>)}, MaxRows)}

InitPositionOnly == InitInputs(SheetTables, SheetTables, {PositionOnlyConfig})

SpecPositionOnly == InitPositionOnly /\ [][Next]_vars

\* C28: Position-only mode: under an empty key_columns list all rows of
\* each table form one group under the empty key: the call returns
\* max(rows of A, rows of B) records, record i pairs row i of A with row i
\* of B in table order, the surplus rows are AddedRow or RemovedRow, and no
\* record is NewKey or RemovedKey.
C28_PositionOnlyMode ==
    (config.key_columns = <<>> /\ Done) =>
        LET m == Len(na.rows)
            n == Len(nb.rows)
            recs == result.aligned_data
        IN /\ Len(recs) = Max(m, n)
           /\ \A i \in 1..Len(recs) :
                 /\ recs[i].key = <<>>
                 /\ recs[i].status \notin {"NEW_KEY", "REMOVED_KEY"}
                 /\ i <= Min(m, n) =>
                       /\ recs[i].status \in {"MATCH", "MODIFIED"}
                       /\ recs[i].A = NonKeyPart(na, na.rows[i])
                       /\ recs[i].B = NonKeyPart(nb, nb.rows[i])
                 /\ (i > n) => recs[i].status = "REMOVED_ROW"
                 /\ (i > m) => recs[i].status = "ADDED_ROW"

(***************************************************************************)
(* A session: one engine instance, constructed with the caller's           *)
(* configuration object, is called again and again; between the calls the  *)
(* caller may change its tables and its configuration object.  The         *)
(* metadata of a result holds self.config, the caller's object itself, so  *)
(* a change of the object shows through the result.                        *)
(***************************************************************************)
SessionTables ==
    Tables2("ID", {Num(1)}, "V", {Str(<<"a">>), Str(<<"A">>)}, MaxRows)
        \cup Tables1("V", {Str(<<"a">>)}, 1)

SessionConfigs == {MkConfig(<<"ID">>, "position", NoColumn, cs, TRUE) : cs \in BOOLEAN}

\* engine.compare(df_a, df_b) is called with all rows kept by the instance
NewCallKeepsRows ==
    /\ UNCHANGED gui_vars
    /\ pc \in {"done", "raised"}
    /\ same_nan' \in IF NaNMayBeShared(config, df_a, df_b) THEN BOOLEAN ELSE {FALSE}
    /\ pc' = "start"
    /\ na' = NoTable /\ nb' = NoTable
    /\ keys_a' = {} /\ keys_b' = {}
    /\ keys_only_a' = {} /\ keys_only_b' = {} /\ keys_common' = {}
    /\ order_a' = <<>> /\ order_b' = <<>>
    /\ aligned_rows' = aligned_rows
    /\ result' = NoResult
    /\ error' = NoError
    /\ UNCHANGED <<df_a, df_b, config>>

\* engine.compare(df_a, df_b) is called on the caller's tables as they are
\* now: the locals of the call are fresh, the instance holds nothing but
\* self.config
NewCall ==
    /\ UNCHANGED gui_vars
    /\ pc \in {"done", "raised"}
    /\ same_nan' \in IF NaNMayBeShared(config, df_a, df_b) THEN BOOLEAN ELSE {FALSE}
    /\ pc' = "start"
    /\ na' = NoTable /\ nb' = NoTable
    /\ keys_a' = {} /\ keys_b' = {}
    /\ keys_only_a' = {} /\ keys_only_b' = {} /\ keys_common' = {}
    /\ order_a' = <<>> /\ order_b' = <<>>
    /\ aligned_rows' = <<>>
    /\ result' = NoResult
    /\ error' = NoError
    /\ UNCHANGED <<df_a, df_b, config>>

\* after a call the caller assigns to a field of its configuration object;
\* result.comparison_metadata['config'] is that object
CallerModifiesConfig ==
    /\ UNCHANGED gui_vars
    /\ pc \in {"done", "raised"}
    /\ config' \in SessionConfigs \ {config}
    /\ result' = IF Done THEN [result EXCEPT !.comparison_metadata.config = config'] ELSE result
    /\ UNCHANGED <<df_a, df_b, same_nan, pc, na, nb, keys_a, keys_b, keys_only_a,
                   keys_only_b, keys_common, order_a, order_b, aligned_rows, error>>

\* after a call the caller changes one of its tables; the result was built from
\* the cells of the normalized copies
CallerModifiesTables ==
    /\ UNCHANGED gui_vars
    /\ pc \in {"done", "raised"}
    /\ \/ df_a' \in SessionTables \ {df_a} /\ df_b' = df_b
       \/ df_b' \in SessionTables \ {df_b} /\ df_a' = df_a
    /\ UNCHANGED <<config, same_nan, pc, na, nb, keys_a, keys_b, keys_only_a,
                   keys_only_b, keys_common, order_a, order_b, aligned_rows, result, error>>

NextSession ==
    \/ Validate
    \/ Normalize
    \/ PartitionKeys
    \/ ProcessCommonKeys
    \/ ProcessKeysOnlyA
    \/ ProcessKeysOnlyB
    \/ Summarize
    \/ NewCall
    \/ CallerModifiesConfig
    \/ CallerModifiesTables

\* the first call of the session is one that fails validation
InitSession ==
    InitInputs(Tables1("V", {Str(<<"a">>)}, 1), SessionTables, SessionConfigs)

SpecSession == InitSession /\ [][NextSession]_vars

\* the step is the return or the failure of a call
CallEnds == pc \notin {"done", "raised"} /\ pc' \in {"done", "raised"}

\* C24: Independent invocations: the engine keeps no state between calls:
\* whatever calls came before on the instance, calls that failed validation
\* included, a call ends as the call of a freshly constructed engine with
\* the same configuration ends on the same two tables.
C24_IndependentInvocations ==
    [][CallEnds => Outcome' \in CompareOutcomes(config', df_a', df_b', same_nan')]_vars

\* a call has returned records; every call of the session comes after one
\* that failed validation
C24_Witness ==
    /\ Done
    /\ Len(df_a.rows) = 2
    /\ CountOf("MODIFIED") > 0
    /\ CountOf("MATCH") > 0

\* C29: Result immutability: once compare has returned, the result
\* (summary, aligned records, key lists and metadata with its
\* configuration) does not change when the caller afterwards modifies the
\* input tables or the configuration object.
C29_ResultImmutable == [][(Done /\ pc' = "done") => result' = result]_vars

\* ------------------------------------------------------------------
\* The window of gui_main.py: run_comparison, its two triggers, the
\* ComparisonWorker thread and the two handlers of its signals.
\* ------------------------------------------------------------------

\* the number of workers one session of the window starts
MaxWorkers == 3

\* the tables of the loaded sheets: one row each
GuiTables == {t \in SheetTables : Len(t.rows) = 1}

\* the ComparisonConfig run_comparison builds from the widgets: the checked
\* key in key-based mode, no key in position-based mode; no tiebreaker
GuiConfig ==
    IF mode_key_based
        THEN MkConfig(<<"ID">>, "position", NoColumn, FALSE, TRUE)
        ELSE PositionOnlyConfig

\* a QThread object destroyed while its thread was still running ends the
\* process
Crashed == \E i \in DOMAIN workers : workers[i].state = "destroyed"

\* self.worker = ComparisonWorker(...) drops the only reference to the
\* previous worker; when that one is still running, it either keeps running
\* or is destroyed with its thread
Orphaned(ws) ==
    IF ws # <<>> /\ ws[Len(ws)].state = "running"
        THEN {ws, [ws EXCEPT ![Len(ws)].state = "destroyed"]}
        ELSE {ws}

\* run_comparison: without a key in key-based mode it warns and returns;
\* otherwise it disables the button and the configuration group, and
\* creates, connects and starts a worker
run_comparison ==
    IF mode_key_based /\ ~keys_checked
        THEN UNCHANGED gui_vars
        ELSE /\ Len(workers) < MaxWorkers
             /\ compare_btn' = FALSE
             /\ \E ws \in Orphaned(workers) :
                    workers' = Append(ws, [state |-> "running",
                                           signal |-> "none",
                                           config |-> GuiConfig])
             /\ UNCHANGED <<mode_key_based, keys_checked>>

\* compare_btn.clicked: only an enabled button is clicked
ClickCompare ==
    /\ ~Crashed
    /\ compare_btn
    /\ run_comparison
    /\ UNCHANGED engine_vars

\* the Ctrl+Return action of the window
ShortcutCompare ==
    /\ ~Crashed
    /\ run_comparison
    /\ UNCHANGED engine_vars

\* a key checkbox of the configuration group is toggled
ToggleKey ==
    /\ ~Crashed
    /\ compare_btn
    /\ keys_checked' = ~keys_checked
    /\ UNCHANGED <<mode_key_based, compare_btn, workers>>
    /\ UNCHANGED engine_vars

\* on_mode_changed: key-based and position-based exclude each other
ToggleMode ==
    /\ ~Crashed
    /\ compare_btn
    /\ mode_key_based' = ~mode_key_based
    /\ UNCHANGED <<keys_checked, compare_btn, workers>>
    /\ UNCHANGED engine_vars

\* a file is loaded again: the key checkboxes are rebuilt unchecked and
\* update_compare_button_state enables the button, both files being loaded
LoadFile ==
    /\ ~Crashed
    /\ \/ df_a' \in GuiTables /\ df_b' = df_b
       \/ df_b' \in GuiTables /\ df_a' = df_a
    /\ keys_checked' = FALSE
    /\ compare_btn' = TRUE
    /\ UNCHANGED <<mode_key_based, workers>>
    /\ UNCHANGED <<config, same_nan, pc, na, nb, keys_a, keys_b,
                   keys_only_a, keys_only_b, keys_common, order_a, order_b,
                   aligned_rows, result, error>>

\* ComparisonWorker.run: error when compare raises; otherwise the report is
\* written and finished is emitted, or writing the report raises and error
\* is emitted
WorkerRun ==
    /\ ~Crashed
    /\ \E i \in DOMAIN workers :
           /\ workers[i].state = "running"
           /\ \E o \in CompareOutcomes(workers[i].config, df_a, df_b, same_nan) :
              \E sig \in IF o.raised THEN {"error"} ELSE {"finished", "error"} :
                  workers' = [workers EXCEPT ![i] = [@ EXCEPT !.state = "emitted",
                                                              !.signal = sig]]
    /\ UNCHANGED <<mode_key_based, keys_checked, compare_btn>>
    /\ UNCHANGED engine_vars

\* comparison_finished, the slot of finished, runs in the window's thread:
\* it enables the button and the configuration group
comparison_finished ==
    /\ ~Crashed
    /\ \E i \in DOMAIN workers :
           /\ workers[i].state = "emitted"
           /\ workers[i].signal = "finished"
           /\ workers' = [workers EXCEPT ![i].state = "handled"]
    /\ compare_btn' = TRUE
    /\ UNCHANGED <<mode_key_based, keys_checked>>
    /\ UNCHANGED engine_vars

\* comparison_error, the slot of error, enables them as well
comparison_error ==
    /\ ~Crashed
    /\ \E i \in DOMAIN workers :
           /\ workers[i].state = "emitted"
           /\ workers[i].signal = "error"
           /\ workers' = [workers EXCEPT ![i].state = "handled"]
    /\ compare_btn' = TRUE
    /\ UNCHANGED <<mode_key_based, keys_checked>>
    /\ UNCHANGED engine_vars

NextGui ==
    \/ ClickCompare
    \/ ShortcutCompare
    \/ ToggleKey
    \/ ToggleMode
    \/ LoadFile
    \/ WorkerRun
    \/ comparison_finished
    \/ comparison_error

InitGui == InitInputs(GuiTables, GuiTables, {PositionOnlyConfig})

SpecGui == InitGui /\ [][NextGui]_vars

\* the workers whose signal has not been handled yet
InFlight == {i \in DOMAIN workers : workers[i].state # "handled"}

\* C30: once run_comparison has started a worker, no second worker is
\* started, by the button or by the shortcut, until the first one has
\* delivered its finished or its error signal and the handler has enabled
\* the button again: at any time at most one started worker is still
\* running or waiting for its handler.
C30_SingleComparisonInFlight == Cardinality(InFlight) <= 1

====
